---- MODULE Spec2Model ----
(***************************************************************************)
(* Model of the zsh plugin-manager update steps (src/steps/zsh.rs) and of  *)
(* the step runner that invokes them.  A step is one action: it reads its  *)
(* inputs (environment variables, the search path, the file system, the    *)
(* exit status of the commands it starts), produces the ordered list of    *)
(* events it causes (separator, probe, execute, multi_pull) and its        *)
(* Result, which the runner classifies and appends to the Report.          *)
(***************************************************************************)
EXTENDS Integers, Sequences, FiniteSets, TLC

VARIABLES run_type, path_progs, enabled, idx, report, last

vars == <<run_type, path_progs, enabled, idx, report, last>>

\* Largest number of enabled steps in one run.
MaxSteps == 2

\* WalkDir::new(custom_dir).max_depth(2)
max_depth == 2

\* The steps of zsh.rs in their declared order.
StepNames ==
  <<"zr", "antidote", "antibody", "antigen", "zgenom",
    "zplug", "zinit", "zi", "zim", "oh-my-zsh">>

RunTypes == {"DryRun", "Execute"}

\* The program every step requires; zr and antibody are looked up by one
\* step each, which draws their presence when it runs.
Programs == {"zsh"}

\* Exit statuses a started command can end with.
ExitCodes == {0, 1, 80}

\* The pseudo exit status of a command that could not be started.
SpawnFailed == -1

CommandStatuses == ExitCodes \cup {SpawnFailed}

\* The statuses to draw for a run type: in DryRun no command is started, so
\* none ends.
Statuses(rt) == IF rt = "Execute" THEN CommandStatuses ELSE {0}

----------------------------------------------------------------------------
(* Paths are sequences of components.                                      *)

Join(p, c) == Append(p, c)

IsPrefix(p, q) == Len(p) <= Len(q) /\ SubSeq(q, 1, Len(p)) = p

ROOT == <<>>
HOME == <<"home">>
\* A path component that is not valid Unicode.
BadComponent == "\\xFF"
Replacement == "U+FFFD"
BADPATH == <<BadComponent>>

\* Path::to_string_lossy: invalid sequences become U+FFFD.
to_string_lossy(p) ==
  [i \in DOMAIN p |-> IF p[i] = BadComponent THEN Replacement ELSE p[i]]

----------------------------------------------------------------------------
(* Environment variables.  A variable is unset, set to a path that is      *)
(* valid Unicode, or set to bytes that are not.                            *)

Unset == [st |-> "unset", val |-> <<>>]
SetTo(p) == [st |-> "set", val |-> p]
NotUnicode == [st |-> "notunicode", val |-> BADPATH]

EnvStates(values) == {Unset, NotUnicode} \cup {SetTo(p) : p \in values}

\* std::env::var: Ok(value) only when the variable is present and valid
\* Unicode; NotPresent and NotUnicode are both errors.
env_var(e) ==
  IF e.st = "set" THEN [ok |-> TRUE, val |-> e.val]
                  ELSE [ok |-> FALSE, val |-> <<>>]

----------------------------------------------------------------------------
(* Results, events and the record a step leaves behind.                    *)

Ok == [ok |-> TRUE, err |-> "", code |-> 0]
Err(kind, code) == [ok |-> FALSE, err |-> kind, code |-> code]

Sep(name) ==
  [kind |-> "separator", prog |-> name, spawned |-> FALSE, code |-> 0]

\* The answer of a probe that was never asked.
NoProbe == [ok |-> FALSE, out |-> <<>>, started |-> FALSE, code |-> 0]

\* No directory resolved (yet).
NONE == <<"(none)">>

\* What a step leaves behind: the programs it found on the search path, the
\* events it caused in order, its Result, and for run_zim and run_oh_my_zsh
\* the variable and the probe answer they read, the directory they resolved,
\* whether ~/.oh-my-zsh is a symbolic link, how the walk went, the
\* repositories left after the exclusion, those handed to multi_pull and
\* those whose pull failed.
Blank(step, progs) ==
  [step |-> step, found |-> progs, events |-> <<>>, result |-> Ok,
   env |-> Unset, probe |-> NoProbe, dir |-> NONE,
   symlink |-> FALSE, walk |-> "none", repos |-> {}, pulled |-> {}, failed |-> {}]

Skip(step, progs) == [Blank(step, progs) EXCEPT !.result = Err("SkipStep", 0)]

\* utils::require(name): the program is on the search path.
require(progs, name) == name \in progs

\* PathExt::require: the path exists.
path_require(present, p) == p \in present

\* RunType::execute(..).status_checked_with_codes(accepted): in DryRun the
\* command is only printed; in Execute it is started and succeeds on exit
\* status 0 or an accepted one.
execute(rt, prog, status, accepted) ==
  IF rt = "DryRun"
    THEN [event |-> [kind |-> "execute", prog |-> prog,
                     spawned |-> FALSE, code |-> 0],
          result |-> Ok]
    ELSE [event |-> [kind |-> "execute", prog |-> prog,
                     spawned |-> status # SpawnFailed, code |-> status],
          result |-> IF status \in ({0} \cup accepted) THEN Ok
                     ELSE Err("Status", status)]

\* Command::new("zsh").args(..).output_checked_utf8() goes to the operating
\* system directly, whatever the run type.  It is Err when zsh cannot be
\* started (no process exists then), when the process exits with a status
\* other than 0, and when it exits 0 with output that is not UTF-8; it is
\* Ok with the output otherwise.
ProbeNotStarted ==
  [ok |-> FALSE, out |-> <<>>, started |-> FALSE, code |-> SpawnFailed]
ProbeExitNonzero == [ok |-> FALSE, out |-> <<>>, started |-> TRUE, code |-> 1]
ProbeNotUtf8 == [ok |-> FALSE, out |-> <<>>, started |-> TRUE, code |-> 0]
ProbeOk(p) == [ok |-> TRUE, out |-> p, started |-> TRUE, code |-> 0]

ProbeResults(outs) ==
  {ProbeNotStarted, ProbeExitNonzero, ProbeNotUtf8} \cup {ProbeOk(p) : p \in outs}

\* The process the probe started, with the status it exited with.
Probe(pr) ==
  [kind |-> "probe", prog |-> "zsh", spawned |-> TRUE, code |-> pr.code]

\* A probe that could not be started leaves no process behind.
probe_events(pr) == IF pr.started THEN <<Probe(pr)>> ELSE <<>>

----------------------------------------------------------------------------
(* zdotdir, zshrc                                                          *)

ZDOT == <<"zdot">>

zdotdir(e) == IF env_var(e).ok THEN env_var(e).val ELSE HOME

zshrc(e) == Join(zdotdir(e), ".zshrc")

----------------------------------------------------------------------------
(* run_zr                                                                  *)

\* run_zr without its `require("zr")?`.
run_zr_unchecked(rt, progs, zdot, status) ==
  IF ~require(progs, "zsh") THEN Skip("zr", progs)
  ELSE LET x == execute(rt, "zsh", status, {})
       IN [Blank("zr", progs) EXCEPT !.events = <<Sep("zr"), x.event>>,
                                     !.result = x.result]

run_zr(rt, progs, zdot, status) ==
  IF ~require(progs, "zsh") THEN Skip("zr", progs)
  ELSE IF ~require(progs, "zr") THEN Skip("zr", progs)
  ELSE LET x == execute(rt, "zsh", status, {})
       IN [Blank("zr", progs) EXCEPT !.events = <<Sep("zr"), x.event>>,
                              !.result = x.result]

----------------------------------------------------------------------------
(* run_antidote                                                            *)

run_antidote(rt, progs, zdot, present, status) ==
  IF ~require(progs, "zsh") THEN Skip("antidote", progs)
  ELSE IF ~path_require(present, Join(zdotdir(zdot), ".antidote"))
    THEN Skip("antidote", progs)
  ELSE LET x == execute(rt, "zsh", status, {})
       IN [Blank("antidote", progs) EXCEPT !.events = <<Sep("antidote"), x.event>>,
                                    !.result = x.result]

----------------------------------------------------------------------------
(* run_antibody                                                            *)

\* run_antibody printing its separator after the command instead of before.
run_antibody_late_separator(rt, progs, status) ==
  IF ~require(progs, "zsh") THEN Skip("antibody", progs)
  ELSE IF ~require(progs, "antibody") THEN Skip("antibody", progs)
  ELSE LET x == execute(rt, "antibody", status, {})
       IN [Blank("antibody", progs) EXCEPT
             !.events = <<x.event, Sep("antibody")>>, !.result = x.result]

run_antibody(rt, progs, status) ==
  IF ~require(progs, "zsh") THEN Skip("antibody", progs)
  ELSE IF ~require(progs, "antibody") THEN Skip("antibody", progs)
  ELSE LET x == execute(rt, "antibody", status, {})
       IN [Blank("antibody", progs) EXCEPT !.events = <<Sep("antibody"), x.event>>,
                                    !.result = x.result]

----------------------------------------------------------------------------
(* run_antigen, run_zgenom, run_zplug, run_zinit, run_zi                   *)

\* env::var(NAME).map(PathBuf::from).unwrap_or_else(|_| default)
env_or(e, default) == IF env_var(e).ok THEN env_var(e).val ELSE default

ENVDIR == <<"envdir">>

run_antigen(rt, progs, zdot, adotdir, present, status) ==
  IF ~require(progs, "zsh") THEN Skip("antigen", progs)
  ELSE IF ~path_require(present, zshrc(zdot)) THEN Skip("antigen", progs)
  ELSE IF ~path_require(present, env_or(adotdir, Join(HOME, "antigen.zsh")))
    THEN Skip("antigen", progs)
  ELSE LET x == execute(rt, "zsh", status, {})
       IN [Blank("antigen", progs) EXCEPT !.events = <<Sep("antigen"), x.event>>,
                                   !.result = x.result]

run_zgenom(rt, progs, zdot, zgen_source, present, status) ==
  IF ~require(progs, "zsh") THEN Skip("zgenom", progs)
  ELSE IF ~path_require(present, zshrc(zdot)) THEN Skip("zgenom", progs)
  ELSE IF ~path_require(present, env_or(zgen_source, Join(HOME, ".zgenom")))
    THEN Skip("zgenom", progs)
  ELSE LET x == execute(rt, "zsh", status, {})
       IN [Blank("zgenom", progs) EXCEPT !.events = <<Sep("zgenom"), x.event>>,
                                  !.result = x.result]

run_zplug(rt, progs, zdot, zplug_home, present, status) ==
  IF ~require(progs, "zsh") THEN Skip("zplug", progs)
  ELSE IF ~path_require(present, zshrc(zdot)) THEN Skip("zplug", progs)
  ELSE IF ~path_require(present, env_or(zplug_home, Join(HOME, ".zplug")))
    THEN Skip("zplug", progs)
  ELSE LET x == execute(rt, "zsh", status, {})
       IN [Blank("zplug", progs) EXCEPT !.events = <<Sep("zplug"), x.event>>,
                                 !.result = x.result]

run_zinit(rt, progs, zdot, zinit_home, present, status) ==
  IF ~require(progs, "zsh") THEN Skip("zinit", progs)
  ELSE IF ~path_require(present, zshrc(zdot)) THEN Skip("zinit", progs)
  ELSE IF ~path_require(present, env_or(zinit_home, Join(HOME, ".zinit")))
    THEN Skip("zinit", progs)
  ELSE LET x == execute(rt, "zsh", status, {})
       IN [Blank("zinit", progs) EXCEPT !.events = <<Sep("zinit"), x.event>>,
                                 !.result = x.result]

run_zi(rt, progs, zdot, present, status) ==
  IF ~require(progs, "zsh") THEN Skip("zi", progs)
  ELSE IF ~path_require(present, zshrc(zdot)) THEN Skip("zi", progs)
  ELSE IF ~path_require(present, Join(HOME, ".zi")) THEN Skip("zi", progs)
  ELSE LET x == execute(rt, "zsh", status, {})
       IN [Blank("zi", progs) EXCEPT !.events = <<Sep("zi"), x.event>>,
                              !.result = x.result]

----------------------------------------------------------------------------
(* run_zim                                                                 *)

ZIM_ENV == <<"zim-env">>
ZIM_PROBED == <<"zim-probed">>
ZIM_DEFAULT == Join(HOME, ".zim")

\* env::var("ZIM_HOME").or_else(probe).map(PathBuf::from)
\*   .unwrap_or_else(|_| home/.zim): the probe closure runs only when the
\* lookup fails, the default closure only when both fail.
zim_home(e, pr) ==
  IF env_var(e).ok THEN [dir |-> env_var(e).val, events |-> <<>>]
  ELSE IF pr.ok THEN [dir |-> pr.out, events |-> probe_events(pr)]
  ELSE [dir |-> ZIM_DEFAULT, events |-> probe_events(pr)]

run_zim(rt, progs, zim_env, pr, present, status) ==
  IF ~require(progs, "zsh") THEN Skip("zim", progs)
  ELSE LET r == zim_home(zim_env, pr)
           base == [Blank("zim", progs) EXCEPT !.env = zim_env, !.probe = pr,
                                        !.dir = r.dir, !.events = r.events]
       IN IF ~path_require(present, r.dir)
            THEN [base EXCEPT !.result = Err("SkipStep", 0)]
            ELSE LET x == execute(rt, "zsh", status, {})
                 IN [base EXCEPT !.events = r.events \o <<Sep("zim"), x.event>>,
                                 !.result = x.result]

----------------------------------------------------------------------------
(* The file system run_oh_my_zsh walks.  ~/.oh-my-zsh may be a real        *)
(* directory or a symbolic link to /data/omz.                              *)

OMZ == Join(HOME, ".oh-my-zsh")
OMZ_CUSTOM == Join(OMZ, "custom")
PLUGINS == Join(OMZ_CUSTOM, "plugins")
P1 == Join(PLUGINS, "p1")
P1SUB == Join(P1, "sub")
ALT == <<"alt">>
T1 == Join(ALT, "t1")
MISSING == <<"missing">>
DATA == <<"data">>
OMZ_REAL == Join(DATA, "omz")

FileSystems ==
  {fs \in [omz : BOOLEAN, symlink : BOOLEAN, markers : SUBSET {P1},
           unreadable : SUBSET {PLUGINS}] :
     /\ fs.symlink => fs.omz
     /\ fs.unreadable # {} => fs.omz}

Existing(fs) ==
  {ROOT, HOME, ALT, T1}
    \cup (IF fs.omz THEN {OMZ, OMZ_CUSTOM, PLUGINS, P1, P1SUB} ELSE {})
    \cup (IF fs.symlink THEN {DATA, OMZ_REAL, Join(OMZ_REAL, "custom")} ELSE {})

\* The canonical form of a path: symbolic links resolved.
Canon(fs, p) ==
  IF fs.symlink /\ IsPrefix(OMZ, p)
    THEN OMZ_REAL \o SubSeq(p, Len(OMZ) + 1, Len(p))
    ELSE p

\* The directories holding a repository marker: the oh-my-zsh checkout
\* itself, the nested checkout below p1, the checkout /alt/t1, and the
\* plugin p1 when the input marks it.
RepoRoots(fs) ==
  {Canon(fs, p) : p \in (IF fs.omz THEN {OMZ, P1SUB} ELSE {}) \cup {T1} \cup
                        (fs.markers \cap Existing(fs))}

\* WalkDir::new(root).max_depth(max_depth): the entries down to max_depth,
\* symbolic links below the root yielded but not followed; an error when the
\* root is missing or a directory that has to be read cannot be.
Walk(fs, root) ==
  LET behind(p) == fs.symlink /\ IsPrefix(OMZ, p) /\ p # OMZ /\ ~IsPrefix(OMZ, root)
      entries == {p \in Existing(fs) :
                    /\ IsPrefix(root, p)
                    /\ Len(p) - Len(root) <= max_depth
                    /\ ~behind(p)}
  IN [entries |-> entries,
      error |-> \/ root \notin Existing(fs)
                \/ \E d \in entries :
                     d \in fs.unreadable /\ Len(d) - Len(root) < max_depth]

----------------------------------------------------------------------------
(* Repositories (the RepositorySet) and multi_pull.                        *)

\* Repositories::insert_if_repo: a repository root is inserted under its
\* canonical path.
insert_if_repo(repos, fs, p) ==
  IF Canon(fs, p) \in RepoRoots(fs) THEN repos \cup {Canon(fs, p)} ELSE repos

\* Repositories::remove(key)
remove(repos, key) == repos \ {key}

\* Git::multi_pull(repos, ctx): every repository of the set is updated, a
\* failure of one does not stop the others, and the call fails when one did.
multi_pull(rt, repos, failing) ==
  LET failed == IF rt = "Execute" THEN repos \cap failing ELSE {}
  IN [events |-> <<[kind |-> "multi_pull", prog |-> "git",
                    spawned |-> rt = "Execute",
                    code |-> IF failed = {} THEN 0 ELSE 1]>>,
      pulled |-> repos,
      failed |-> failed,
      result |-> IF failed = {} THEN Ok ELSE Err("Pull", 1)]

----------------------------------------------------------------------------
(* run_oh_my_zsh                                                           *)

\* The upgrade script run with plain status_checked().
no_codes == {}

\* status_checked_with_codes(&[80])
upgrade_codes == {80}

\* custom_dir falling back to the default as soon as the lookup fails,
\* whatever the probe answers.
custom_dir_ignore_probe(e, pr, oh_my_zsh) ==
  IF env_var(e).ok THEN [dir |-> env_var(e).val, events |-> <<>>]
  ELSE [dir |-> Join(oh_my_zsh, "custom"), events |-> probe_events(pr)]

\* env::var("ZSH_CUSTOM").or_else(probe).map(PathBuf::from)
\*   .unwrap_or_else(|e| oh_my_zsh.join("custom"))
custom_dir(e, pr, oh_my_zsh) ==
  IF env_var(e).ok THEN [dir |-> env_var(e).val, events |-> <<>>]
  ELSE IF pr.ok THEN [dir |-> pr.out, events |-> probe_events(pr)]
  ELSE [dir |-> Join(oh_my_zsh, "custom"), events |-> probe_events(pr)]

\* The walk with its errors dropped (entries filtered with Result::ok).
discover_skip_errors(fs, dir) ==
  [error |-> FALSE,
   repos |-> UNION {insert_if_repo({}, fs, p) : p \in Walk(fs, dir).entries}]

\* for entry in WalkDir::new(custom_dir).max_depth(2) { let entry = entry?;
\*   custom_repos.insert_if_repo(entry.path()); }
discover(fs, dir) ==
  LET w == Walk(fs, dir)
  IN [error |-> w.error,
      repos |-> IF w.error THEN {}
                ELSE UNION {insert_if_repo({}, fs, p) : p \in w.entries}]

\* multi_pull called without the is_empty test.
pull_custom_unguarded(rt, repos, failing) == multi_pull(rt, repos, failing)

\* multi_pull's error dropped instead of returned with `?`.
pull_custom_ignore_error(rt, repos, failing) ==
  IF repos # {} THEN [multi_pull(rt, repos, failing) EXCEPT !.result = Ok]
  ELSE [events |-> <<>>, pulled |-> {}, failed |-> {}, result |-> Ok]

\* if !custom_repos.is_empty() { ctx.git().multi_pull(&custom_repos, ctx)?; }
pull_custom(rt, repos, failing) ==
  IF repos # {} THEN multi_pull(rt, repos, failing)
  ELSE [events |-> <<>>, pulled |-> {}, failed |-> {}, result |-> Ok]

run_oh_my_zsh(rt, progs, fs, zsh_custom, pr, failing, status) ==
  IF ~require(progs, "zsh") THEN Skip("oh-my-zsh", progs)
  ELSE IF ~path_require(Existing(fs), OMZ) THEN Skip("oh-my-zsh", progs)
  ELSE
    LET c == custom_dir(zsh_custom, pr, OMZ)
        base == [Blank("oh-my-zsh", progs) EXCEPT
                   !.env = zsh_custom, !.probe = pr, !.dir = c.dir,
                   !.symlink = fs.symlink,
                   !.walk = IF Walk(fs, c.dir).error THEN "error" ELSE "ok",
                   !.events = <<Sep("oh-my-zsh")>> \o c.events]
        d == discover(fs, c.dir)
    IN IF d.error THEN [base EXCEPT !.result = Err("Io", 0)]
       ELSE
         LET repos == remove(d.repos, to_string_lossy(OMZ))
             p == pull_custom(rt, repos, failing)
             pulled == [base EXCEPT !.repos = repos,
                                    !.pulled = p.pulled, !.failed = p.failed,
                                    !.events = base.events \o p.events]
         IN IF ~p.result.ok THEN [pulled EXCEPT !.result = p.result]
            ELSE LET x == execute(rt, "zsh", status, upgrade_codes)
                 IN [pulled EXCEPT !.events = pulled.events \o <<x.event>>,
                                   !.result = x.result]

----------------------------------------------------------------------------
(* The step runner.                                                        *)

Accepted(step) == IF step = "oh-my-zsh" THEN upgrade_codes ELSE {}

Classify(step, result) ==
  IF result.ok THEN "Succeeded"
  ELSE IF result.err = "SkipStep" THEN "Skipped"
  ELSE IF result.err = "Status" /\ result.code \in Accepted(step) THEN "Ignored"
  ELSE "Failed"

\* A runner that gives up at the first failed step.
NextIndex_stop_on_failure(i, outcome) ==
  IF outcome = "Failed" THEN Len(StepNames) + 1 ELSE i + 1

NextIndex(i, outcome) == i + 1

Runner(out) ==
  LET outcome == Classify(out.step, out.result)
  IN /\ last' = out
     /\ report' = Append(report, [name |-> out.step, outcome |-> outcome])
     /\ idx' = NextIndex(idx, outcome)
     /\ UNCHANGED <<run_type, path_progs, enabled>>

Current(name) == idx <= Len(enabled) /\ enabled[idx] = name

\* The enabled steps: a subsequence of the declared order.
EnabledLists ==
  LET Idx == UNION {[1..n -> 1..Len(StepNames)] : n \in 0..MaxSteps}
      Inc == {s \in Idx : \A i, j \in DOMAIN s : i < j => s[i] < s[j]}
  IN {[i \in DOMAIN s |-> StepNames[s[i]]] : s \in Inc}

Init ==
  /\ run_type \in RunTypes
  /\ path_progs \in SUBSET Programs
  /\ enabled \in EnabledLists
  /\ idx = 1
  /\ report = <<>>
  /\ last = Blank("", {})

RunZr ==
  /\ Current("zr")
  /\ \E others \in SUBSET {"zr"}, zdot \in EnvStates({ZDOT}),
        status \in Statuses(run_type) :
       Runner(run_zr(run_type, path_progs \cup others, zdot, status))

\* Each step draws which of the paths it looks for exist.
RunAntidote ==
  /\ Current("antidote")
  /\ \E zdot \in EnvStates({ZDOT}), status \in Statuses(run_type) :
     \E present \in SUBSET {Join(zdotdir(zdot), ".antidote")} :
       Runner(run_antidote(run_type, path_progs, zdot, present, status))

RunAntibody ==
  /\ Current("antibody")
  /\ \E others \in SUBSET {"antibody"}, status \in Statuses(run_type) :
       Runner(run_antibody(run_type, path_progs \cup others, status))

RunAntigen ==
  /\ Current("antigen")
  /\ \E zdot \in EnvStates({ZDOT}), adotdir \in EnvStates({ENVDIR}),
        status \in Statuses(run_type) :
     \E present \in SUBSET {zshrc(zdot), env_or(adotdir, Join(HOME, "antigen.zsh"))} :
       Runner(run_antigen(run_type, path_progs, zdot, adotdir, present, status))

RunZgenom ==
  /\ Current("zgenom")
  /\ \E zdot \in EnvStates({ZDOT}), zgen_source \in EnvStates({ENVDIR}),
        status \in Statuses(run_type) :
     \E present \in SUBSET {zshrc(zdot), env_or(zgen_source, Join(HOME, ".zgenom"))} :
       Runner(run_zgenom(run_type, path_progs, zdot, zgen_source, present, status))

RunZplug ==
  /\ Current("zplug")
  /\ \E zdot \in EnvStates({ZDOT}), zplug_home \in EnvStates({ENVDIR}),
        status \in Statuses(run_type) :
     \E present \in SUBSET {zshrc(zdot), env_or(zplug_home, Join(HOME, ".zplug"))} :
       Runner(run_zplug(run_type, path_progs, zdot, zplug_home, present, status))

RunZinit ==
  /\ Current("zinit")
  /\ \E zdot \in EnvStates({ZDOT}), zinit_home \in EnvStates({ENVDIR}),
        status \in Statuses(run_type) :
     \E present \in SUBSET {zshrc(zdot), env_or(zinit_home, Join(HOME, ".zinit"))} :
       Runner(run_zinit(run_type, path_progs, zdot, zinit_home, present, status))

RunZi ==
  /\ Current("zi")
  /\ \E zdot \in EnvStates({ZDOT}), status \in Statuses(run_type) :
     \E present \in SUBSET {zshrc(zdot), Join(HOME, ".zi")} :
       Runner(run_zi(run_type, path_progs, zdot, present, status))

\* The probe answers only when it is asked: when the variable lookup failed.
ProbesFor(e, outs) == IF env_var(e).ok THEN {NoProbe} ELSE ProbeResults(outs)

RunZim ==
  /\ Current("zim")
  /\ \E zim_env \in EnvStates({ZIM_ENV}), status \in Statuses(run_type) :
     \E pr \in ProbesFor(zim_env, {ZIM_PROBED}) :
     \E present \in SUBSET {zim_home(zim_env, pr).dir} :
       Runner(run_zim(run_type, path_progs, zim_env, pr, present, status))

\* The repositories whose pull can fail: every one handed to multi_pull,
\* when pulls are made for real.
PullFailures(rt, fs, dir) ==
  IF rt = "Execute" /\ OMZ \in Existing(fs)
    THEN remove(discover(fs, dir).repos, to_string_lossy(OMZ))
    ELSE {}

\* The exit statuses of upgrade.sh: the script has one only when the step
\* gets to it, that is when nothing before it made the step return.
UpgradeStatuses(rt, progs, fs, zsh_custom, pr, failing) ==
  IF run_oh_my_zsh(rt, progs, fs, zsh_custom, pr, failing, 0).result.ok
    THEN Statuses(rt)
    ELSE {0}

RunOhMyZsh ==
  /\ Current("oh-my-zsh")
  /\ \E fs \in FileSystems,
        zsh_custom \in EnvStates({OMZ, HOME, ROOT, ALT}) :
     \E pr \in ProbesFor(zsh_custom, {MISSING, ALT}) :
     \E failing \in SUBSET PullFailures(run_type, fs,
                                        custom_dir(zsh_custom, pr, OMZ).dir) :
     \E status \in UpgradeStatuses(run_type, path_progs, fs, zsh_custom,
                                    pr, failing) :
       Runner(run_oh_my_zsh(run_type, path_progs, fs, zsh_custom, pr, failing, status))

Next ==
  \/ RunZr
  \/ RunAntidote
  \/ RunAntibody
  \/ RunAntigen
  \/ RunZgenom
  \/ RunZplug
  \/ RunZinit
  \/ RunZi
  \/ RunZim
  \/ RunOhMyZsh

Spec == Init /\ [][Next]_vars

----------------------------------------------------------------------------
(* Properties.                                                             *)

Events == last.events
Ran == last.step # ""
Outcome == report[Len(report)].outcome
Kinds == {Events[i].kind : i \in DOMAIN Events}
Separators == {i \in DOMAIN Events : Events[i].kind = "separator"}
AfterSeparator(i) == \E j \in Separators : j < i /\ Events[j].prog = last.step
Done == idx > Len(enabled)

\* C1: in DryRun no step starts a subprocess, and a step that gets to its
\* command ends Succeeded.
C1_DryRunSpawnsNothing ==
  (Ran /\ run_type = "DryRun") =>
    /\ \A i \in DOMAIN Events : ~Events[i].spawned
    /\ "execute" \in Kinds => Outcome = "Succeeded"

\* The programs a step requires.
Required(step) ==
  IF step = "zr" THEN {"zsh", "zr"}
  ELSE IF step = "antibody" THEN {"zsh", "antibody"}
  ELSE {"zsh"}

\* C2: a step one of whose required programs is not on the search path is
\* Skipped, never Failed, and starts no command, neither through the
\* executor nor directly.
C2_MissingProgramSkips ==
  (Ran /\ ~(Required(last.step) \subseteq last.found)) =>
    /\ Outcome = "Skipped"
    /\ Kinds \cap {"execute", "probe", "multi_pull"} = {}

C2_Witness ==
  /\ Ran /\ last.step = "zr"
  /\ "zsh" \in last.found /\ "zr" \notin last.found
  /\ Outcome = "Skipped" /\ Events = <<>>

\* What the runner keeps true of the Report in every state.
C3_ReportState ==
  /\ idx = Len(report) + 1
  /\ Len(report) <= Len(enabled)
  /\ \A i \in DOMAIN report : report[i].name = enabled[i]
  /\ Ran =>
       /\ last.step = report[Len(report)].name
       /\ last.result.ok => Outcome = "Succeeded"
       /\ last.result.err = "SkipStep" => Outcome = "Skipped"
       /\ last.result.err \in {"Status", "Io", "Pull"} => Outcome = "Failed"
  /\ Len(report) < Len(enabled) => ENABLED Next
  /\ Done => Len(report) = Len(enabled)

\* Every step appends one entry and changes none.
C3_ReportStep ==
  /\ Len(report') = Len(report) + 1
  /\ SubSeq(report', 1, Len(report)) = report

\* C3: the Report holds one entry per invoked step, in the declared order;
\* a step that fails is Failed, the others are classified by what they did;
\* after any outcome the next enabled step can run, and the run is over only
\* when every enabled step has its entry; entries are never changed.
C3_FailureIsolation == []C3_ReportState /\ [][C3_ReportStep]_vars

C3_Witness ==
  /\ Done /\ Len(report) = 2
  /\ report[1].outcome = "Failed"
  /\ report[2].outcome = "Succeeded"

\* The upgrade script's event, when run_oh_my_zsh got to it.
Upgraded == last.step = "oh-my-zsh" /\ "execute" \in Kinds
UpgradeCode == Events[Len(Events)].code

\* C4: in Execute mode an upgrade script that exits 80 leaves the step
\* Succeeded or Ignored, not Failed; any status other than 0 and 80 leaves
\* it Failed.
C4_AcceptedExitCode ==
  (run_type = "Execute" /\ Upgraded) =>
    /\ UpgradeCode = 80 => Outcome \in {"Succeeded", "Ignored"}
    /\ UpgradeCode \notin {0, 80} => Outcome = "Failed"

C4_Witness ==
  /\ run_type = "Execute" /\ Upgraded
  /\ Events[Len(Events)].kind = "execute"
  /\ UpgradeCode = 80 /\ Outcome = "Succeeded"

\* C5: the oh-my-zsh directory is never among the repositories handed to
\* multi_pull, whatever the custom directory.
C5_OhMyZshNeverPulled ==
  last.step = "oh-my-zsh" =>
    (IF last.symlink THEN OMZ_REAL ELSE OMZ) \notin last.pulled

\* C6: with no repository left after the exclusion, multi_pull is not
\* called and the upgrade script is run.
C6_EmptySetNoPull ==
  (last.step = "oh-my-zsh" /\ last.walk = "ok" /\ last.repos = {}) =>
    /\ "multi_pull" \notin Kinds
    /\ last.pulled = {}
    /\ Events[Len(Events)].kind = "execute"

C6_Witness ==
  /\ last.step = "oh-my-zsh" /\ last.walk = "ok" /\ last.repos = {}
  /\ last.dir = OMZ
  /\ Events[Len(Events)].kind = "execute"

\* C7 as stated: the separator is printed at most once, and before any
\* subprocess of the step is started.
C7_SeparatorBeforeAnySubprocess ==
  /\ Cardinality(Separators) <= 1
  /\ \A i \in DOMAIN Events : Events[i].spawned => AfterSeparator(i)

\* C7 amended: the separator is printed at most once and before every
\* command issued through the executor and before multi_pull; the
\* ZSH_CUSTOM probe of run_oh_my_zsh follows the separator too, while the
\* ZIM_HOME probe of run_zim comes before it.
C7_SeparatorBeforeCommands ==
  /\ Cardinality(Separators) <= 1
  /\ \A i \in DOMAIN Events :
       /\ Events[i].kind \in {"execute", "multi_pull"} => AfterSeparator(i)
       /\ (Events[i].kind = "probe" /\ last.step # "zim") => AfterSeparator(i)
       /\ (Events[i].kind = "probe" /\ last.step = "zim") =>
            \A j \in Separators : i < j

C7_Witness ==
  /\ last.step = "zim" /\ Len(Events) = 3
  /\ Events[1].kind = "probe" /\ Events[1].spawned
  /\ Events[2].kind = "separator"
  /\ Events[3].kind = "execute" /\ Events[3].spawned

\* C8: an error of the walk fails run_oh_my_zsh: the step is Failed, not
\* Skipped or Succeeded, and nothing is pulled or upgraded.
C8_WalkErrorFails ==
  (last.step = "oh-my-zsh" /\ last.walk = "error") =>
    /\ ~last.result.ok
    /\ Outcome = "Failed"
    /\ Kinds \cap {"multi_pull", "execute"} = {}
    /\ last.pulled = {}

C8_Witness ==
  /\ last.step = "oh-my-zsh" /\ last.walk = "error"
  /\ last.dir = OMZ_CUSTOM
  /\ Outcome = "Failed"

\* The directory a step falls back to.
DefaultDir == IF last.step = "zim" THEN Join(HOME, ".zim") ELSE Join(OMZ, "custom")
Resolved == last.step \in {"zim", "oh-my-zsh"} /\ last.dir # NONE

\* C9 as stated: the variable's value whenever it is set, else the probe's
\* output when the probe succeeds, else the default; the probe runs only
\* when the lookup fails, the default is used only when both fail.
C9_PrecedenceWhenSet ==
  Resolved =>
    /\ last.env.st # "unset" => last.dir = last.env.val
    /\ (last.env.st = "unset" /\ last.probe.ok) => last.dir = last.probe.out
    /\ (last.env.st = "unset" /\ ~last.probe.ok) => last.dir = DefaultDir
    /\ "probe" \in Kinds => last.env.st # "set"

\* C9 amended: the variable's value whenever it is set to valid Unicode,
\* and no probe is asked then; otherwise (unset, or set to bytes that are
\* not Unicode) the probe is asked, its process is there unless zsh could
\* not be started, and its output is used when it succeeds (started, exit
\* status 0, UTF-8 output), else the default.
C9_PrecedenceWhenUnicode ==
  Resolved =>
    /\ last.env.st = "set" =>
         /\ last.dir = last.env.val
         /\ last.probe = NoProbe /\ "probe" \notin Kinds
    /\ last.env.st # "set" =>
         /\ last.probe # NoProbe
         /\ "probe" \in Kinds <=> last.probe.started
         /\ last.probe.ok => last.probe.started /\ last.probe.code = 0
         /\ last.dir = IF last.probe.ok THEN last.probe.out ELSE DefaultDir

C9_Witness ==
  /\ last.step = "oh-my-zsh" /\ last.env.st = "notunicode"
  /\ last.probe = ProbeOk(ALT) /\ last.dir = ALT
  /\ last.pulled = {T1}
  /\ "probe" \in Kinds

\* C10: the upgrade script is run at most once and never before
\* multi_pull; when a pull failed the step returns that error and the
\* script is not run.
C10_UpgradeAfterPull ==
  last.step = "oh-my-zsh" =>
    /\ Cardinality({i \in DOMAIN Events : Events[i].kind = "execute"}) <= 1
    /\ \A i, j \in DOMAIN Events :
         (Events[i].kind = "execute" /\ Events[j].kind = "multi_pull") => j < i
    /\ last.failed # {} =>
         /\ last.result = Err("Pull", 1)
         /\ "execute" \notin Kinds

C10_Witness ==
  /\ last.step = "oh-my-zsh" /\ last.failed # {}
  /\ Events[Len(Events)].kind = "multi_pull"
  /\ last.result.err = "Pull"

====
